---------------------------- MODULE Spec2Model ----------------------------
(***************************************************************************)
(* Model of etl_produccion.py: the field normalizers, the three source     *)
(* parsers, and ejecutar_etl (per-source loop, validation, merge, export,  *)
(* report, machine and operator aggregation) run from __main__.            *)
(*                                                                         *)
(* Text is a sequence of one-character strings, so that the regular        *)
(* expressions, strptime/strftime and the text comparison of the sort are  *)
(* computed character by character.                                        *)
(***************************************************************************)
EXTENDS Integers, Sequences, FiniteSets, TLC

VARIABLES
    archivos,      \* the three input files as found on disk (never written)
    pc,            \* position of __main__ / ejecutar_etl
    idx,           \* index of the next month of the per-source loop
    dataframes,    \* list of the tables of the sources processed
    resumen,       \* per-source summary: <<Origen, filas_orig, len(df)>>
    errores,       \* file names of the failed sources
    df_maestro,    \* the merged table, SinTabla before the merge
    salida,        \* Reporte_Maestro.csv: SinTabla until written, then its rows
    ranking,       \* produccion_maquina / produccion_operador as last computed
    top_operador,  \* the operator reported as most productive
    exit_code,     \* process exit status, -1 while running
    excepcion,     \* exception that ended the run, "" if none
    entrada,       \* argument of the normalizer under check
    resultado      \* its return value, Nulo before the call

vars == <<archivos, pc, idx, dataframes, resumen, errores, df_maestro, salida,
          ranking, top_operador, exit_code, excepcion, entrada, resultado>>

etlVars == <<archivos, pc, idx, dataframes, resumen, errores, df_maestro,
             salida, ranking, top_operador, exit_code, excepcion>>

fnVars == <<entrada, resultado>>

\* None or NaN where a text is expected
Nulo == <<"NULO">>

\* a table that does not exist (yet)
SinTabla == <<[nulo |-> TRUE]>>

-----------------------------------------------------------------------------
(* Characters and text *)

Digitos == {"0", "1", "2", "3", "4", "5", "6", "7", "8", "9"}

\* the letters used, uppercase and lowercase in the same order
LetrasMayusculas == <<"A", "B", "C", "D", "E", "I", "J", "L", "N", "O", "P", "R", "S", "T", "U", "X", "Z">>
LetrasMinusculas == <<"a", "b", "c", "d", "e", "i", "j", "l", "n", "o", "p", "r", "s", "t", "u", "x", "z">>

Mayusculas == {LetrasMayusculas[i] : i \in 1..Len(LetrasMayusculas)}
Minusculas == {LetrasMinusculas[i] : i \in 1..Len(LetrasMinusculas)}
Blancos == {" "}

\* the characters used, in code point order (str comparison of Python)
Alfabeto == <<" ", "\"", "-", ".", "/",
              "0", "1", "2", "3", "4", "5", "6", "7", "8", "9">>
            \o LetrasMayusculas \o <<"_">> \o LetrasMinusculas

\* ord() of each character, relative to the first of the alphabet
Ordinal ==
    [c \in {Alfabeto[i] : i \in 1..Len(Alfabeto)} |->
        CHOOSE i \in 1..Len(Alfabeto) : Alfabeto[i] = c]

Ord(c) == Ordinal[c]

ValorDigito(c) == Ord(c) - Ord("0")

CharDigito(n) == Alfabeto[Ord("0") + n]

\* \d, \D, \s, \w of the re module
EsDigito(c) == c \in Digitos
EsBlanco(c) == c \in Blancos
EsPalabra(c) == c \in Digitos \cup Mayusculas \cup Minusculas \cup {"_"}

RECURSIVE TextoMenor(_, _)
\* a < b for two str values
TextoMenor(a, b) ==
    IF b = <<>> THEN FALSE
    ELSE IF a = <<>> THEN TRUE
    ELSE IF Head(a) # Head(b) THEN Ord(Head(a)) < Ord(Head(b))
    ELSE TextoMenor(Tail(a), Tail(b))

RECURSIVE Strip(_)
RECURSIVE LStrip(_)
LStrip(s) == IF s # <<>> /\ EsBlanco(Head(s)) THEN LStrip(Tail(s)) ELSE s
Strip(s) ==
    LET l == LStrip(s) IN
    IF l # <<>> /\ EsBlanco(l[Len(l)]) THEN Strip(SubSeq(l, 1, Len(l) - 1))
    ELSE l

RECURSIVE ValorDecimal(_)
\* int() of a text of digits
ValorDecimal(s) ==
    IF s = <<>> THEN 0
    ELSE 10 * ValorDecimal(SubSeq(s, 1, Len(s) - 1)) + ValorDigito(s[Len(s)])

SoloDigitos(s) == \A i \in 1..Len(s) : EsDigito(s[i])

\* zero-padded decimal of n, at least w characters wide (%02d, %04d)
RECURSIVE Relleno(_, _)
Relleno(n, w) ==
    IF w <= 1 /\ n < 10 THEN <<CharDigito(n)>>
    ELSE Relleno(n \div 10, w - 1) \o <<CharDigito(n % 10)>>

\* the pieces of s between occurrences of the character sep
RECURSIVE Partir(_, _)
Partir(s, sep) ==
    IF \A i \in 1..Len(s) : s[i] # sep THEN <<s>>
    ELSE LET k == CHOOSE i \in 1..Len(s) :
                      s[i] = sep /\ \A j \in 1..(i - 1) : s[j] # sep
         IN <<SubSeq(s, 1, k - 1)>> \o Partir(SubSeq(s, k + 1, Len(s)), sep)

-----------------------------------------------------------------------------
(* estandarizar_fecha *)

\* a strptime format: the order of its three directives and its separator
FmtISO == [orden |-> <<"Y", "m", "d">>, sep |-> "-"]
FmtDMY == [orden |-> <<"d", "m", "Y">>, sep |-> "/"]
FmtMDY == [orden |-> <<"m", "d", "Y">>, sep |-> "/"]
FmtDMYGuion == [orden |-> <<"d", "m", "Y">>, sep |-> "-"]
FmtYMDBarra == [orden |-> <<"Y", "m", "d">>, sep |-> "/"]
FmtDMYPunto == [orden |-> <<"d", "m", "Y">>, sep |-> "."]

\* the list with %m/%d/%Y ahead of %d/%m/%Y
FormatosMesPrimero ==
    <<FmtISO, FmtMDY, FmtDMY, FmtDMYGuion, FmtYMDBarra, FmtDMYPunto>>

\* formatos.extend([...]) in priority order
FormatosPorDefecto ==
    <<FmtISO, FmtDMY, FmtMDY, FmtDMYGuion, FmtYMDBarra, FmtDMYPunto>>

EsBisiesto(y) == (y % 4 = 0 /\ y % 100 # 0) \/ y % 400 = 0

DiasDelMes(y, m) ==
    IF m = 2 THEN (IF EsBisiesto(y) THEN 29 ELSE 28)
    ELSE IF m \in {4, 6, 9, 11} THEN 30 ELSE 31

FechaValida(y, m, d) ==
    /\ y \in 1..9999
    /\ m \in 1..12
    /\ d \in 1..DiasDelMes(y, m)

\* one field of the text against one directive of _strptime's regex:
\* %Y is \d\d\d\d, %m is 1[0-2]|0[1-9]|[1-9], %d is 3[01]|[12]\d|0[1-9]|[1-9]
CampoCoincide(dir, campo) ==
    /\ SoloDigitos(campo)
    /\ CASE dir = "Y" -> Len(campo) = 4
         [] dir = "m" -> Len(campo) \in {1, 2} /\ ValorDecimal(campo) \in 1..12
         [] dir = "d" -> Len(campo) \in {1, 2} /\ ValorDecimal(campo) \in 1..31

\* what stands for the ValueError of strptime
SinFecha == [y |-> 0, m |-> 0, d |-> 0]

\* datetime.strptime(s, fmt): the date as [y, m, d], or SinFecha
StrpTime(s, fmt) ==
    LET campos == Partir(s, fmt.sep) IN
    IF Len(campos) # 3 THEN SinFecha
    ELSE IF \E i \in 1..3 : ~CampoCoincide(fmt.orden[i], campos[i])
    THEN SinFecha
    ELSE LET val(dir) ==
                 ValorDecimal(campos[CHOOSE i \in 1..3 : fmt.orden[i] = dir])
         IN IF FechaValida(val("Y"), val("m"), val("d"))
            THEN [y |-> val("Y"), m |-> val("m"), d |-> val("d")]
            ELSE SinFecha

\* .strftime('%Y-%m-%d')
StrfTimeISO(f) ==
    Relleno(f.y, 4) \o <<"-">> \o Relleno(f.m, 2) \o <<"-">> \o Relleno(f.d, 2)

\* the loop "for fmt in formatos": the first format that parses wins,
\* the text itself when none does
RECURSIVE ProbarFormatos(_, _)
ProbarFormatos(s, formatos) ==
    IF formatos = <<>> THEN s
    ELSE LET f == StrpTime(s, Head(formatos)) IN
         IF f # SinFecha THEN StrfTimeISO(f)
         ELSE ProbarFormatos(s, Tail(formatos))

\* the default formato_origen = None
SinFormato == [orden |-> <<>>, sep |-> ""]

estandarizar_fecha(fecha_str, formato_origen) ==
    IF fecha_str = Nulo THEN Nulo
    ELSE ProbarFormatos(Strip(fecha_str),
                        (IF formato_origen = SinFormato THEN <<>>
                         ELSE <<formato_origen>>) \o FormatosPorDefecto)

-----------------------------------------------------------------------------
(* estandarizar_maquina *)

\* last index of the run of whitespace that starts at index i of s
RECURSIVE FinDeBlancos(_, _)
FinDeBlancos(s, i) ==
    IF i < Len(s) /\ EsBlanco(s[i + 1]) THEN FinDeBlancos(s, i + 1) ELSE i

\* whether (\D)\s+(\d) matches at the head of s; \s+ is greedy, and a shorter
\* run would be followed by whitespace, never by a digit
CoincideGuionDigito(s) ==
    /\ Len(s) >= 3
    /\ ~EsDigito(s[1])
    /\ EsBlanco(s[2])
    /\ FinDeBlancos(s, 2) < Len(s)
    /\ EsDigito(s[FinDeBlancos(s, 2) + 1])

\* the same pattern anchored to a trailing run of digits: (\D)\s+(\d+)$
CoincideGuionDigitoFinal(s) ==
    /\ CoincideGuionDigito(s)
    /\ SoloDigitos(SubSeq(s, FinDeBlancos(s, 2) + 1, Len(s)))

RECURSIVE SubGuionDigitoFinal(_)
\* the first substitution if it touched only the trailing digit group
SubGuionDigitoFinal(s) ==
    IF s = <<>> THEN s
    ELSE IF CoincideGuionDigitoFinal(s)
    THEN <<s[1], "-">> \o SubSeq(s, FinDeBlancos(s, 2) + 1, Len(s))
    ELSE <<s[1]>> \o SubGuionDigitoFinal(Tail(s))

RECURSIVE SubGuionDigito(_)
\* re.sub(r'(\D)\s+(\d)', r'\1-\2', nombre): every non-overlapping match,
\* leftmost first
SubGuionDigito(s) ==
    IF s = <<>> THEN s
    ELSE IF CoincideGuionDigito(s)
    THEN LET k == FinDeBlancos(s, 2) IN
         <<s[1], "-", s[k + 1]>> \o SubGuionDigito(SubSeq(s, k + 2, Len(s)))
    ELSE <<s[1]>> \o SubGuionDigito(Tail(s))

\* first index of the run of whitespace that ends at index i of s
RECURSIVE InicioDeBlancos(_, _)
InicioDeBlancos(s, i) ==
    IF i > 1 /\ EsBlanco(s[i - 1]) THEN InicioDeBlancos(s, i - 1) ELSE i

\* re.sub(r'(\w)\s+([A-Z]$)', r'\1-\2', nombre): the pattern ends at the end
\* of the text, so it matches at most once
SubGuionLetra(s) ==
    LET n == Len(s) IN
    IF n >= 3 /\ s[n] \in Mayusculas /\ EsBlanco(s[n - 1])
    THEN LET j == InicioDeBlancos(s, n - 1) IN
         IF j > 1 /\ EsPalabra(s[j - 1])
         THEN SubSeq(s, 1, j - 1) \o <<"-", s[n]>>
         ELSE s
    ELSE s

estandarizar_maquina(nombre) ==
    IF nombre = Nulo THEN Nulo
    ELSE SubGuionLetra(SubGuionDigito(Strip(nombre)))

-----------------------------------------------------------------------------
(* limpiar_cantidad, estandarizar_producto *)

\* str.lower() and str.upper() of one character
Minuscula(c) ==
    IF c \in Mayusculas
    THEN LetrasMinusculas[CHOOSE i \in 1..Len(LetrasMayusculas) :
                              LetrasMayusculas[i] = c]
    ELSE c

Mayuscula(c) ==
    IF c \in Minusculas
    THEN LetrasMayusculas[CHOOSE i \in 1..Len(LetrasMinusculas) :
                              LetrasMinusculas[i] = c]
    ELSE c

EsLetra(c) == c \in Mayusculas \cup Minusculas

\* a float: its sign and the integer part of its magnitude, with whether a
\* non-zero fraction follows; NaN is a value of its own
NaN == [nan |-> TRUE, neg |-> FALSE, ent |-> 0, frac |-> FALSE]

Flotante(neg, ent, frac) ==
    [nan |-> FALSE, neg |-> neg, ent |-> ent, frac |-> frac]

\* float(texto) of a text of an optional sign, digits and at most one point;
\* NaN stands for the ValueError of any other text
AFlotante(texto) ==
    LET neg == texto # <<>> /\ Head(texto) = "-"
        cuerpo == IF neg THEN Tail(texto) ELSE texto
        partes == Partir(cuerpo, ".")
        ent == partes[1]
        dec == IF Len(partes) = 2 THEN partes[2] ELSE <<>>
    IN IF /\ Len(partes) <= 2
          /\ SoloDigitos(ent) /\ SoloDigitos(dec)
          /\ Len(ent) + Len(dec) > 0
       THEN Flotante(neg, ValorDecimal(ent), ValorDecimal(dec) > 0)
       ELSE NaN

\* Series.astype(int) of one finite float: truncation toward zero
AEntero(f) == IF f.neg THEN 0 - f.ent ELSE f.ent

\* Series.fillna(0)
FillNa0(f) == IF f.nan THEN Flotante(FALSE, 0, FALSE) ELSE f

\* the float returned for a null, empty or unconvertible value
CantidadPorDefecto == Flotante(FALSE, 0, FALSE)

limpiar_cantidad(valor) ==
    IF valor = Nulo THEN CantidadPorDefecto
    ELSE LET texto == [i \in 1..Len(Strip(valor)) |-> Minuscula(Strip(valor)[i])]
             \* re.sub(r'[a-z...\s/]+', '', texto)
             limpio == SelectSeq(texto, LAMBDA c :
                           ~(c \in Minusculas \/ EsBlanco(c) \/ c = "/"))
             f == AFlotante(limpio)
         IN IF f.nan THEN CantidadPorDefecto ELSE f

\* str.title(): a letter is uppercase after a character that is no letter,
\* lowercase after a letter
RECURSIVE Titulo(_, _)
Titulo(s, tras_letra) ==
    IF s = <<>> THEN <<>>
    ELSE <<IF tras_letra THEN Minuscula(Head(s)) ELSE Mayuscula(Head(s))>>
         \o Titulo(Tail(s), EsLetra(Head(s)))

EmpiezaCon(s, t) == Len(s) >= Len(t) /\ SubSeq(s, 1, Len(t)) = t

\* str.replace(viejo, nuevo): non-overlapping occurrences, left to right
RECURSIVE Reemplazar(_, _, _)
Reemplazar(s, viejo, nuevo) ==
    IF s = <<>> THEN <<>>
    ELSE IF EmpiezaCon(s, viejo)
    THEN nuevo \o Reemplazar(SubSeq(s, Len(viejo) + 1, Len(s)), viejo, nuevo)
    ELSE <<Head(s)>> \o Reemplazar(Tail(s), viejo, nuevo)

estandarizar_producto(nombre) ==
    IF nombre = Nulo THEN Nulo
    ELSE LET sin_comillas == SelectSeq(Strip(nombre), LAMBDA c : c # "\"")
             titulo == Titulo(sin_comillas, FALSE)
         IN Reemplazar(
                Reemplazar(titulo, <<" ", "D", "e", " ">>, <<" ", "d", "e", " ">>),
                <<" ", "D", "e", "l", " ">>, <<" ", "d", "e", "l", " ">>)

-----------------------------------------------------------------------------
(* Configuration and the three parsers *)

\* the keys of procesadores, in insertion order
Meses == <<"enero", "febrero", "marzo">>

ARCHIVOS ==
    [mes \in {"enero", "febrero", "marzo"} |->
        CASE mes = "enero" -> "reporte_produccion_enero.csv"
          [] mes = "febrero" -> "produccion_feb_sucio.csv"
          [] mes = "marzo" -> "prod_marzo_v2.csv"]

\* mes.capitalize()
Capitalizar(mes) ==
    CASE mes = "enero" -> "Enero"
      [] mes = "febrero" -> "Febrero"
      [] mes = "marzo" -> "Marzo"

\* what a parser hands back: the exception it raised ("" for none), the
\* table and the number of rows read
Retorno(error, df, filas_originales) ==
    [error |-> error, df |-> df, filas_originales |-> filas_originales]

\* the exception pd.read_csv raises on a file, "" when it returns a table:
\* a file of which no column can be parsed (only blank lines, or nothing left
\* after skiprows) raises EmptyDataError, bytes that are not UTF-8 raise
\* UnicodeDecodeError
ErrorDeLectura(archivo) ==
    CASE archivo.estado = "sin_datos" -> "EmptyDataError"
      [] archivo.estado = "ilegible" -> "UnicodeDecodeError"
      [] OTHER -> ""

\* df[COLUMNAS_FINALES] of one row
Canonica(fecha, producto, cantidad, maquina, operador) ==
    [Fecha |-> fecha, Producto |-> producto, Cantidad |-> cantidad,
     Maquina |-> maquina, Operador |-> operador]

\* data rows a January file is made of: a plain row (its quantity read as
\* a float, the column holding a null), a row without date and quantity
FilasEnero ==
    {[Fecha |-> <<"2", "0", "2", "6", "-", "0", "1", "-", "2", "0">>,
      Producto |-> <<"e", "j", "e">>,
      Cantidad |-> <<"1", "0", "0", ".", "0">>,
      Maquina |-> <<"C", "N", "C", " ", "0", "1">>,
      Operador |-> <<"A", "n", "a">>],
     [Fecha |-> Nulo,
      Producto |-> <<"e", "j", "e">>,
      Cantidad |-> Nulo,
      Maquina |-> <<"T", "o", "r", "n", "o", " ", "B">>,
      Operador |-> <<"L", "u", "i", "s">>]}

\* data rows a February file is made of: unit-suffixed quantities, a row
\* equal to the first January row once normalized, a date that is no
\* calendar date
FilasFebrero ==
    {[Dia_de_Produccion |-> <<"2", "0", "/", "0", "1", "/", "2", "0", "2", "6">>,
      Item |-> <<"E", "J", "E">>,
      Qty |-> <<"1", "0", "0", " ", "p", "z", "a", "s">>,
      Machine_ID |-> <<"C", "N", "C", " ", "0", "1">>,
      Responsable |-> <<"A", "n", "a">>],
     [Dia_de_Produccion |-> <<"3", "1", "/", "0", "2", "/", "2", "0", "2", "6">>,
      Item |-> <<"E", "J", "E">>,
      Qty |-> <<"1", "0", "0", " ", "p", "z", "a", "s">>,
      Machine_ID |-> <<"T", "o", "r", "n", "o", " ", "B">>,
      Responsable |-> <<"L", "u", "i", "s">>]}

\* data rows a March file is made of: approved above rejected, rejected
\* above approved with a fraction, a non-numeric and a missing sub-field
FilasMarzo ==
    {[FECHA |-> <<"2", "0", "2", "6", "-", "0", "1", "-", "1", "0">>,
      PRODUCTO |-> <<"E", "j", "e">>,
      CANT_APROBADA |-> <<"1", "0", "0">>,
      CANT_RECHAZADA |-> <<"1", "5">>,
      MAQUINA |-> <<"C", "N", "C", " ", "0", "1">>,
      OPERADOR |-> <<"L", "u", "i", "s">>],
     [FECHA |-> <<"2", "0", "2", "6", "-", "0", "1", "-", "0", "2">>,
      PRODUCTO |-> <<"E", "j", "e">>,
      CANT_APROBADA |-> <<"1", "0", ".", "5">>,
      CANT_RECHAZADA |-> <<"2", "5">>,
      MAQUINA |-> <<"T", "o", "r", "n", "o", " ", "B">>,
      OPERADOR |-> <<"A", "n", "a">>],
     [FECHA |-> <<"2", "0", "2", "6", "-", "0", "1", "-", "2", "0">>,
      PRODUCTO |-> <<"E", "j", "e">>,
      CANT_APROBADA |-> <<"s", "/", "d">>,
      CANT_RECHAZADA |-> Nulo,
      MAQUINA |-> <<"C", "N", "C", " ", "0", "1">>,
      OPERADOR |-> <<"A", "n", "a">>]}

\* the transforms of procesar_enero on one row
normalizar_enero(f) ==
    Canonica(estandarizar_fecha(f.Fecha, SinFormato),
             estandarizar_producto(f.Producto),
             AEntero(limpiar_cantidad(f.Cantidad)),
             estandarizar_maquina(f.Maquina),
             f.Operador)

\* the same, computed once per row of the catalogue
NormalizadaEnero == [f \in FilasEnero |-> normalizar_enero(f)]

procesar_enero(archivo) ==
    IF ErrorDeLectura(archivo) # "" THEN Retorno(ErrorDeLectura(archivo), <<>>, 0)
    ELSE IF archivo.estado = "sin_columna"
    THEN Retorno("KeyError", <<>>, Len(archivo.filas))
    ELSE Retorno("",
                 [i \in 1..Len(archivo.filas) |-> NormalizadaEnero[archivo.filas[i]]],
                 Len(archivo.filas))

\* the rename and the transforms of procesar_febrero on one row
normalizar_febrero(f) ==
    Canonica(estandarizar_fecha(f.Dia_de_Produccion, FmtDMY),
             estandarizar_producto(f.Item),
             AEntero(limpiar_cantidad(f.Qty)),
             estandarizar_maquina(f.Machine_ID),
             f.Responsable)

NormalizadaFebrero == [f \in FilasFebrero |-> normalizar_febrero(f)]

procesar_febrero(archivo) ==
    IF ErrorDeLectura(archivo) # "" THEN Retorno(ErrorDeLectura(archivo), <<>>, 0)
    ELSE IF archivo.estado = "sin_columna"
    THEN Retorno("KeyError", <<>>, Len(archivo.filas))
    ELSE Retorno("",
                 [i \in 1..Len(archivo.filas) |-> NormalizadaFebrero[archivo.filas[i]]],
                 Len(archivo.filas))

\* pd.to_numeric(x, errors='coerce') of one cell
ANumerico(celda) == IF celda = Nulo THEN NaN ELSE AFlotante(Strip(celda))

\* df['CANT_APROBADA'] - df['CANT_RECHAZADA'] on a negative difference, had
\* the parser clamped it
CantidadNetaAcotada(aprobada, rechazada) ==
    IF aprobada < rechazada THEN 0 ELSE aprobada - rechazada

\* df['Cantidad'] = df['CANT_APROBADA'] - df['CANT_RECHAZADA']
CantidadNeta(aprobada, rechazada) == aprobada - rechazada

\* the net quantity, the rename and the transforms of procesar_marzo on one
\* row
normalizar_marzo(f) ==
    LET aprobada == AEntero(FillNa0(ANumerico(f.CANT_APROBADA)))
        rechazada == AEntero(FillNa0(ANumerico(f.CANT_RECHAZADA)))
    IN Canonica(estandarizar_fecha(f.FECHA, SinFormato),
                estandarizar_producto(f.PRODUCTO),
                CantidadNeta(aprobada, rechazada),
                estandarizar_maquina(f.MAQUINA),
                f.OPERADOR)

NormalizadaMarzo == [f \in FilasMarzo |-> normalizar_marzo(f)]

procesar_marzo(archivo) ==
    IF ErrorDeLectura(archivo) # "" THEN Retorno(ErrorDeLectura(archivo), <<>>, 0)
    ELSE IF archivo.estado = "sin_columna"
    THEN Retorno("KeyError", <<>>, Len(archivo.filas))
    ELSE Retorno("",
                 [i \in 1..Len(archivo.filas) |-> NormalizadaMarzo[archivo.filas[i]]],
                 Len(archivo.filas))

\* procesadores[mes](ruta)
Procesar(mes, archivo) ==
    CASE mes = "enero" -> procesar_enero(archivo)
      [] mes = "febrero" -> procesar_febrero(archivo)
      [] mes = "marzo" -> procesar_marzo(archivo)

\* the body of the try of one loop iteration: the exception raised ("" for
\* none), the table with its Origen column, the number of rows read
Intento(mes, archivo) ==
    IF archivo.estado = "ausente" THEN Retorno("FileNotFoundError", <<>>, 0)
    ELSE IF archivo.estado = "cero_bytes" THEN Retorno("ValueError", <<>>, 0)
    ELSE LET r == Procesar(mes, archivo) IN
         Retorno(r.error,
                 [i \in 1..Len(r.df) |->
                     [Fecha |-> r.df[i].Fecha, Producto |-> r.df[i].Producto,
                      Cantidad |-> r.df[i].Cantidad, Maquina |-> r.df[i].Maquina,
                      Operador |-> r.df[i].Operador,
                      Origen |-> Capitalizar(mes)]],
                 r.filas_originales)

-----------------------------------------------------------------------------
(* Merge and aggregation helpers *)

\* s without its i-th element
Quitar(s, i) == SubSeq(s, 1, i - 1) \o SubSeq(s, i + 1, Len(s))

RECURSIVE Concat(_)
\* pd.concat(dataframes, ignore_index=True)
Concat(tablas) ==
    IF tablas = <<>> THEN <<>> ELSE Head(tablas) \o Concat(Tail(tablas))

\* row a sorts strictly before row b by 'Fecha', ascending, nulls last
FechaAntes(a, b) ==
    /\ a.Fecha # Nulo
    /\ b.Fecha = Nulo \/ TextoMenor(a.Fecha, b.Fecha)

\* index of the first element of s equal to x
Primero(s, x) == CHOOSE i \in 1..Len(s) : s[i] = x /\ \A j \in 1..(i - 1) : s[j] # x

RECURSIVE OrdenesPorFecha(_)
\* sort_values(by='Fecha', ascending=True) with the default kind
\* 'quicksort', which is not stable: every order of the rows that is
\* ascending by Fecha (equal rows are interchangeable, so one of them is
\* taken for all)
OrdenesPorFecha(filas) ==
    IF filas = <<>> THEN {<<>>}
    ELSE LET primeras == {filas[i] : i \in {k \in 1..Len(filas) :
                            \A j \in 1..Len(filas) : ~FechaAntes(filas[j], filas[k])}}
         IN UNION {{<<f>> \o o : o \in OrdenesPorFecha(Quitar(filas, Primero(filas, f)))} :
                     f \in primeras}

\* the rows in the order of pd.concat, had they not been sorted
SinOrdenar(filas) == {filas}

\* the orders sort_values can leave df_maestro in
Ordenar(filas) == OrdenesPorFecha(filas)

RECURSIVE DropDuplicatesSinOrigen(_)
\* drop_duplicates() had it compared the five canonical columns only
DropDuplicatesSinOrigen(filas) ==
    IF filas = <<>> THEN <<>>
    ELSE LET resto == DropDuplicatesSinOrigen(SubSeq(filas, 1, Len(filas) - 1))
             ultima == filas[Len(filas)]
         IN IF \E i \in 1..Len(resto) :
                   /\ resto[i].Fecha = ultima.Fecha
                   /\ resto[i].Producto = ultima.Producto
                   /\ resto[i].Cantidad = ultima.Cantidad
                   /\ resto[i].Maquina = ultima.Maquina
                   /\ resto[i].Operador = ultima.Operador
            THEN resto
            ELSE Append(resto, ultima)

RECURSIVE DropDuplicates(_)
\* drop_duplicates(): of rows equal in every column the first is kept
DropDuplicates(filas) ==
    IF filas = <<>> THEN <<>>
    ELSE LET resto == DropDuplicates(SubSeq(filas, 1, Len(filas) - 1))
             ultima == filas[Len(filas)]
         IN IF \E i \in 1..Len(resto) : resto[i] = ultima THEN resto
            ELSE Append(resto, ultima)

\* the value of column col in a row
Columna(fila, col) ==
    CASE col = "Maquina" -> fila.Maquina
      [] col = "Operador" -> fila.Operador
      [] col = "Origen" -> fila.Origen

RECURSIVE SumaCantidad(_)
SumaCantidad(filas) ==
    IF filas = <<>> THEN 0
    ELSE Head(filas).Cantidad + SumaCantidad(Tail(filas))

RECURSIVE EnOrden(_)
\* the texts of a set as a sequence in ascending order
EnOrden(claves) ==
    IF claves = {} THEN <<>>
    ELSE LET m == CHOOSE k \in claves : \A o \in claves : ~TextoMenor(o, k)
         IN <<m>> \o EnOrden(claves \ {m})

\* groupby(col)['Cantidad'].agg(['sum', 'count', ...]): one group per key
\* other than null, in ascending key order
GroupBy(filas, col) ==
    LET claves == {Columna(filas[i], col) : i \in 1..Len(filas)} \ {Nulo}
        orden == EnOrden(claves)
    IN [g \in 1..Len(orden) |->
           LET del_grupo == SelectSeq(filas, LAMBDA f : Columna(f, col) = orden[g])
           IN [clave |-> orden[g],
               Total_Piezas |-> SumaCantidad(del_grupo),
               Registros |-> Len(del_grupo)]]

RECURSIVE OrdenesPorTotal(_)
\* sort_values('Total_Piezas', ascending=False) with the default kind
\* 'quicksort', which is not stable: every order of the groups that is
\* descending by total
OrdenesPorTotal(grupos) ==
    IF grupos = <<>> THEN {<<>>}
    ELSE LET primeros == {i \in 1..Len(grupos) :
                            \A j \in 1..Len(grupos) :
                                grupos[j].Total_Piezas <= grupos[i].Total_Piezas}
         IN UNION {{<<grupos[i]>> \o o : o \in OrdenesPorTotal(Quitar(grupos, i))} :
                     i \in primeros}

\* the largest total, 0 standing in for the NaN of a table without groups
\* (never used then: the loop over the groups does not run)
MaxTotal(grupos) ==
    IF grupos = <<>> THEN 0
    ELSE LET i == CHOOSE i \in 1..Len(grupos) :
                      \A j \in 1..Len(grupos) :
                          grupos[j].Total_Piezas <= grupos[i].Total_Piezas
         IN grupos[i].Total_Piezas

\* int(x) of the quotient a / b, b # 0: truncation toward zero
Truncar(a, b) ==
    LET abs(x) == IF x < 0 THEN 0 - x ELSE x
        q == abs(a) \div abs(b)
    IN IF (a < 0) = (b < 0) THEN q ELSE 0 - q

\* width of the bar of the machine chart
AnchoBarra == 30

\* barra_len = int((row['Total_Piezas'] / max_piezas) * 30)
BarraLen(total, max_piezas) == Truncar(total * AnchoBarra, max_piezas)

\* len(c * n) for a one-character string c: a negative count gives ''
Repetir(n) == IF n < 0 THEN 0 ELSE n

\* number of cells of barra = '\u2588' * barra_len + '\u2591' * (30 - barra_len)
LargoBarra(barra_len) == Repetir(barra_len) + Repetir(AnchoBarra - barra_len)

-----------------------------------------------------------------------------
(* The input files *)

FilasDe(mes) ==
    CASE mes = "enero" -> FilasEnero
      [] mes = "febrero" -> FilasFebrero
      [] mes = "marzo" -> FilasMarzo

\* most data rows in one file
MaxFilas == 2

RECURSIVE TablasHasta(_, _)
TablasHasta(filas, n) ==
    IF n = 0 THEN {<<>>}
    ELSE LET menores == TablasHasta(filas, n - 1) IN
         menores \cup {Append(t, f) : t \in menores, f \in filas}

\* a file is absent, has zero bytes, has no parseable column, is not UTF-8,
\* lacks an expected column, or holds a header and some data rows (none
\* included)
EstadosDeFallo == {"ausente", "cero_bytes", "sin_datos", "ilegible", "sin_columna"}

ArchivosPosibles(mes) ==
    {[estado |-> e, filas |-> <<>>] : e \in EstadosDeFallo}
    \cup {[estado |-> "ok", filas |-> t] : t \in TablasHasta(FilasDe(mes), MaxFilas)}

-----------------------------------------------------------------------------
(* __main__ and ejecutar_etl *)

Init ==
    /\ archivos \in {[enero |-> e, febrero |-> f, marzo |-> m] :
                        e \in ArchivosPosibles("enero"),
                        f \in ArchivosPosibles("febrero"),
                        m \in ArchivosPosibles("marzo")}
    /\ pc = "extraer"
    /\ idx = 1
    /\ dataframes = <<>>
    /\ resumen = <<>>
    /\ errores = <<>>
    /\ df_maestro = SinTabla
    /\ salida = SinTabla
    /\ ranking = SinTabla
    /\ top_operador = Nulo
    /\ exit_code = -1
    /\ excepcion = ""
    /\ entrada = Nulo
    /\ resultado = Nulo

\* the statement after an exception caught by a handler of the loop, had
\* the handler left the loop
TrasFalloSaliendo(i) == "validar"

\* the statement after iteration i of the loop over procesadores
TrasIteracion(i) == IF i < Len(Meses) THEN "extraer" ELSE "validar"

\* whichever handler catches the exception, it appends the file name
TrasFallo(i) == TrasIteracion(i)

\* one iteration of "for mes, funcion in procesadores.items()"
ProcesarFuente ==
    /\ pc = "extraer"
    /\ LET mes == Meses[idx]
           r == Intento(mes, archivos[mes])
       IN IF r.error = ""
          THEN /\ dataframes' = Append(dataframes, r.df)
               /\ resumen' = Append(resumen, <<Capitalizar(mes),
                                               r.filas_originales, Len(r.df)>>)
               /\ pc' = TrasIteracion(idx)
               /\ UNCHANGED errores
          ELSE /\ errores' = Append(errores, ARCHIVOS[mes])
               /\ pc' = TrasFallo(idx)
               /\ UNCHANGED <<dataframes, resumen>>
    /\ idx' = idx + 1
    /\ UNCHANGED <<archivos, df_maestro, salida, ranking, top_operador,
                   exit_code, excepcion, fnVars>>

\* "if not dataframes", had it counted the failures with > for >=
HayQueAbortarMal == Len(errores) > Len(Meses)

\* if not dataframes
HayQueAbortar == dataframes = <<>>

\* FASE 2: sys.exit(1) when no source was processed; SystemExit is no
\* Exception, so it leaves __main__ with status 1
Validacion ==
    /\ pc = "validar"
    /\ IF HayQueAbortar
       THEN /\ exit_code' = 1
            /\ excepcion' = "SystemExit"
            /\ pc' = "fin"
       ELSE /\ pc' = "unificar"
            /\ UNCHANGED <<exit_code, excepcion>>
    /\ UNCHANGED <<archivos, idx, dataframes, resumen, errores, df_maestro,
                   salida, ranking, top_operador, fnVars>>

\* FASE 3: concat, sort_values, reset_index, drop_duplicates
Unificacion ==
    /\ pc = "unificar"
    /\ \E orden \in Ordenar(Concat(dataframes)) :
           df_maestro' = DropDuplicates(orden)
    /\ pc' = "exportar"
    /\ UNCHANGED <<archivos, idx, dataframes, resumen, errores, salida,
                   ranking, top_operador, exit_code, excepcion, fnVars>>

\* to_csv, then the final report and the preview, which only read
Exportacion ==
    /\ pc = "exportar"
    /\ salida' = df_maestro
    /\ pc' = "maquina"
    /\ UNCHANGED <<archivos, idx, dataframes, resumen, errores, df_maestro,
                   ranking, top_operador, exit_code, excepcion, fnVars>>

\* an exception other than KeyboardInterrupt reaches __main__: exit status 1
ErrorFatal(nombre) ==
    /\ exit_code' = 1
    /\ excepcion' = nombre
    /\ pc' = "fin"

\* BONUS 1: total per machine with its bar. The division by max_piezas is
\* one of numpy floats: with max_piezas = 0 it gives nan or -inf, and int()
\* of those raises ValueError or OverflowError
AnalisisMaquina ==
    /\ pc = "maquina"
    /\ LET grupos == GroupBy(df_maestro, "Maquina")
           max_piezas == MaxTotal(grupos)
       IN IF grupos # <<>> /\ max_piezas = 0
          THEN /\ ErrorFatal("ValueError")
               /\ UNCHANGED ranking
          ELSE /\ \E orden \in OrdenesPorTotal(grupos) :
                      ranking' = [g \in 1..Len(orden) |->
                          [clave |-> orden[g].clave,
                           Total_Piezas |-> orden[g].Total_Piezas,
                           Registros |-> orden[g].Registros,
                           barra_len |-> BarraLen(orden[g].Total_Piezas,
                                                  max_piezas)]]
               /\ pc' = "operador"
               /\ UNCHANGED <<exit_code, excepcion>>
    /\ UNCHANGED <<archivos, idx, dataframes, resumen, errores, df_maestro,
                   salida, top_operador, fnVars>>

\* BONUS 2: the operator ranking and its first entry; index[0] of an empty
\* ranking raises IndexError. The monthly breakdown and the favourite
\* machine of the top operator only read. ejecutar_etl then returns and
\* __main__ ends with status 0
AnalisisOperador ==
    /\ pc = "operador"
    /\ LET grupos == GroupBy(df_maestro, "Operador")
       IN IF grupos = <<>>
          THEN /\ ErrorFatal("IndexError")
               /\ UNCHANGED <<ranking, top_operador>>
          ELSE /\ \E orden \in OrdenesPorTotal(grupos) :
                      /\ ranking' = orden
                      /\ top_operador' = orden[1].clave
               /\ pc' = "fin"
               /\ exit_code' = 0
               /\ UNCHANGED excepcion
    /\ UNCHANGED <<archivos, idx, dataframes, resumen, errores, df_maestro,
                   salida, fnVars>>

\* Ctrl-C at any point of the run: KeyboardInterrupt is no Exception, so no
\* handler of the loop catches it; the frame of ejecutar_etl is left, and
\* with it its local variables; __main__ prints and exits with status 0
Interrupcion ==
    /\ pc \notin {"fin", "inactivo"}
    /\ exit_code' = 0
    /\ excepcion' = "KeyboardInterrupt"
    /\ pc' = "fin"
    /\ idx' = 0
    /\ dataframes' = <<>>
    /\ resumen' = <<>>
    /\ errores' = <<>>
    /\ df_maestro' = SinTabla
    /\ ranking' = SinTabla
    /\ top_operador' = Nulo
    /\ UNCHANGED <<archivos, salida, fnVars>>

Next ==
    \/ ProcesarFuente
    \/ Validacion
    \/ Unificacion
    \/ Exportacion
    \/ AnalisisMaquina
    \/ AnalisisOperador
    \/ Interrupcion

Spec == Init /\ [][Next]_vars

-----------------------------------------------------------------------------
(* The normalizers called on their own *)

\* the pipeline is not running while a normalizer is checked on its own
EtlInactivo ==
    /\ archivos = Nulo
    /\ pc = "inactivo"
    /\ idx = 0
    /\ dataframes = <<>>
    /\ resumen = <<>>
    /\ errores = <<>>
    /\ df_maestro = SinTabla
    /\ salida = SinTabla
    /\ ranking = SinTabla
    /\ top_operador = Nulo
    /\ exit_code = -1
    /\ excepcion = ""

\* calendar dates the date normalizer is called on: a leap year and a
\* common year, every month, every day
Anios == {2024, 2026}

Fechas ==
    {f \in [y : Anios, m : 1..12, d : 1..31] : FechaValida(f.y, f.m, f.d)}

\* a date written in a format, zero-padded as strftime writes it
Escribir(f, fmt) ==
    LET campo(dir) == CASE dir = "Y" -> Relleno(f.y, 4)
                         [] dir = "m" -> Relleno(f.m, 2)
                         [] dir = "d" -> Relleno(f.d, 2)
    IN campo(fmt.orden[1]) \o <<fmt.sep>> \o campo(fmt.orden[2])
           \o <<fmt.sep>> \o campo(fmt.orden[3])

InitFecha ==
    /\ EtlInactivo
    /\ \E f \in Fechas : \E i \in 1..Len(FormatosPorDefecto) :
           entrada = [fecha |-> f, formato |-> FormatosPorDefecto[i],
                      texto |-> Escribir(f, FormatosPorDefecto[i])]
    /\ resultado = Nulo

\* estandarizar_fecha(texto) with no format hint
LlamarFecha ==
    /\ resultado = Nulo
    /\ resultado' = estandarizar_fecha(entrada.texto, SinFormato)
    /\ UNCHANGED <<entrada, etlVars>>

SpecFecha == InitFecha /\ [][LlamarFecha]_vars

\* longest machine name tried
MaxLen == 5

\* one character of each class the two patterns tell apart: an uppercase
\* letter, a lowercase letter, a digit, whitespace, a non-word character
CharsMaquina == {"A", "b", "1", " ", "-"}

RECURSIVE TextosHasta(_, _)
TextosHasta(chars, n) ==
    IF n = 0 THEN {<<>>}
    ELSE LET menores == TextosHasta(chars, n - 1) IN
         menores \cup {Append(t, c) : t \in menores, c \in chars}

InitMaquina ==
    /\ EtlInactivo
    /\ entrada \in TextosHasta(CharsMaquina, MaxLen)
    /\ resultado = Nulo

LlamarMaquina ==
    /\ resultado = Nulo
    /\ resultado' = estandarizar_maquina(entrada)
    /\ UNCHANGED <<entrada, etlVars>>

SpecMaquina == InitMaquina /\ [][LlamarMaquina]_vars

-----------------------------------------------------------------------------
(* Claims about the normalizers *)

IntercambiarDiaMes(f) == [y |-> f.y, m |-> f.d, d |-> f.m]

\* C6 as stated: for every calendar date and each of the six formats,
\* estandarizar_fecha without a hint returns the ISO text of that date.
C6_Original ==
    resultado # Nulo => resultado = StrfTimeISO(entrada.fecha)

\* C6 as amended: the ISO text of the date is returned for the formats
\* YYYY-MM-DD, DD/MM/YYYY, DD-MM-YYYY, YYYY/MM/DD and DD.MM.YYYY, and for
\* MM/DD/YYYY when the day is greater than 12 or equal to the month; any
\* other MM/DD/YYYY text is read as DD/MM/YYYY, which is tried first, and
\* the ISO text of the date with day and month exchanged is returned.
C6_FechaISO ==
    resultado # Nulo =>
        IF /\ entrada.formato = FmtMDY
           /\ entrada.fecha.d <= 12
           /\ entrada.fecha.d # entrada.fecha.m
        THEN resultado = StrfTimeISO(IntercambiarDiaMes(entrada.fecha))
        ELSE resultado = StrfTimeISO(entrada.fecha)

\* a date past the 12th written MM/DD/YYYY has been normalized to its ISO text
C6_Witness ==
    /\ entrada.formato = FmtMDY
    /\ entrada.fecha.d > 12
    /\ resultado = StrfTimeISO(entrada.fecha)

SinBlancos(s) == \A i \in 1..Len(s) : ~EsBlanco(s[i])

\* the characters of s that are neither whitespace nor hyphens
Esqueleto(s) == SelectSeq(s, LAMBDA c : ~EsBlanco(c) /\ c # "-")

\* (\D)\s+(\d) matches somewhere in s
HayBlancoAnteDigito(s) ==
    \E i \in 1..Len(s) : CoincideGuionDigito(SubSeq(s, i, Len(s)))

\* (\w)\s+([A-Z]$) matches in s
HayBlancoAnteLetraFinal(s) ==
    /\ Len(s) >= 3
    /\ s[Len(s)] \in Mayusculas
    /\ EsBlanco(s[Len(s) - 1])
    /\ InicioDeBlancos(s, Len(s) - 1) > 1
    /\ EsPalabra(s[InicioDeBlancos(s, Len(s) - 1) - 1])

-----------------------------------------------------------------------------
(* Claims about ejecutar_etl *)

\* the run was cancelled with Ctrl-C
Interrumpido == excepcion = "KeyboardInterrupt"

\* what the files on disk make of each source
Exito(mes) == Intento(mes, archivos[mes]).error = ""
FilasEmitidas(mes) == Intento(mes, archivos[mes]).df

MesesConExito == {Meses[i] : i \in {k \in 1..Len(Meses) : Exito(Meses[k])}}

MesDe(origen) ==
    CASE origen = "Enero" -> "enero"
      [] origen = "Febrero" -> "febrero"
      [] origen = "Marzo" -> "marzo"

Elementos(s) == {s[i] : i \in 1..Len(s)}

\* the months of the first n loop iterations that meet a condition
PrimerosMeses(n, Cumple(_)) == SelectSeq(SubSeq(Meses, 1, n), Cumple)

\* C1: a failed source (absent, zero bytes, column missing, any other
\* exception) never keeps the remaining parsers from being run: once the
\* loop is left all three were tried, the error list is the file names of
\* the failed ones in loop order, each successful one has handed over its
\* table, and the merged table holds every row of each successful source
\* and no row of a failed one.
C1_Aislamiento ==
    (pc # "inactivo" /\ ~Interrumpido) =>
        /\ pc = "extraer" => idx \in 1..Len(Meses)
        /\ pc # "extraer" => idx = Len(Meses) + 1
        /\ LET fallidos == PrimerosMeses(idx - 1, LAMBDA m : ~Exito(m))
               logrados == PrimerosMeses(idx - 1, Exito)
           IN /\ errores = [i \in 1..Len(fallidos) |-> ARCHIVOS[fallidos[i]]]
              /\ dataframes = [i \in 1..Len(logrados) |-> FilasEmitidas(logrados[i])]
        /\ df_maestro # SinTabla =>
              /\ \A m \in MesesConExito :
                     Elementos(FilasEmitidas(m)) \subseteq Elementos(df_maestro)
              /\ \A f \in Elementos(df_maestro) : Exito(MesDe(f.Origen))

\* the February file is absent, the run has ended with status 0, and the
\* merged table holds rows of January and of March
C1_Witness ==
    /\ pc = "fin" /\ exit_code = 0 /\ ~Interrumpido
    /\ archivos.febrero.estado = "ausente"
    /\ errores = <<ARCHIVOS["febrero"]>>
    /\ \E f \in Elementos(df_maestro) : f.Origen = "Enero"
    /\ \E f \in Elementos(df_maestro) : f.Origen = "Marzo"

\* C2 as stated: whenever none of the three sources is processed
\* successfully the run ends with exit code 1, and no output file is written
\* and no merge or aggregation performed.
C2_Original ==
    (pc = "fin" /\ MesesConExito = {}) =>
        /\ exit_code = 1
        /\ salida = SinTabla /\ df_maestro = SinTabla /\ ranking = SinTabla

\* C2 as amended: whenever none of the three sources is processed
\* successfully, no output file is written and no merge or aggregation is
\* performed, and the run ends with exit code 1 unless the user interrupts
\* it, in which case it ends with exit code 0.
C2_SinFuentes ==
    (pc # "inactivo" /\ MesesConExito = {}) =>
        /\ salida = SinTabla /\ df_maestro = SinTabla /\ ranking = SinTabla
        /\ pc \in {"extraer", "validar", "fin"}
        /\ pc = "fin" => exit_code = (IF Interrumpido THEN 0 ELSE 1)

\* all three sources failed for different reasons and the run has ended
\* with status 1 through sys.exit
C2_Witness ==
    /\ pc = "fin" /\ exit_code = 1 /\ excepcion = "SystemExit"
    /\ archivos.enero.estado = "ausente"
    /\ archivos.febrero.estado = "cero_bytes"
    /\ archivos.marzo.estado = "sin_columna"
    /\ Len(errores) = Len(Meses)

\* C3: whenever at least one source parser succeeds and the run is not
\* interrupted, it ends with exit code 0, whatever the rows of the
\* successful sources are.
C3_Original ==
    (pc = "fin" /\ MesesConExito # {} /\ ~Interrumpido) => exit_code = 0

RECURSIVE Suma(_)
Suma(s) == IF s = <<>> THEN 0 ELSE Head(s) + Suma(Tail(s))

\* rows all parsers that succeeded have emitted, in loop order
TodasLasFilas ==
    Concat([i \in 1..Len(Meses) |->
               IF Exito(Meses[i]) THEN FilasEmitidas(Meses[i]) ELSE <<>>])

SinRepetidos(s) == \A i, j \in 1..Len(s) : s[i] = s[j] => i = j

\* the five canonical fields of a row, without Origen
CincoCampos(f) == <<f.Fecha, f.Producto, f.Cantidad, f.Maquina, f.Operador>>

\* C4: no record is lost or counted twice: each parser emits one row per
\* data row read, and the merged table holds each distinct tuple (Fecha,
\* Producto, Cantidad, Maquina, Operador, Origen) emitted by a successful
\* parser exactly once and nothing else, so its length is N1+N2+N3 less
\* the exact duplicates; rows equal but for Origen are all kept.
C4_SinPerdida ==
    /\ \A i \in 1..Len(resumen) :
           /\ resumen[i][2] = Len(archivos[MesDe(resumen[i][1])].filas)
           /\ resumen[i][3] = resumen[i][2]
    /\ df_maestro # SinTabla =>
           /\ Elementos(df_maestro) = Elementos(TodasLasFilas)
           /\ SinRepetidos(df_maestro)
           /\ Len(df_maestro) =
                  Suma([i \in 1..Len(resumen) |-> resumen[i][2]])
                  - (Len(TodasLasFilas) - Cardinality(Elementos(TodasLasFilas)))

\* the merged table was built from sources holding an exact duplicate, which
\* is gone, and two rows equal in the five fields but of different Origen,
\* which are both there
C4_Witness ==
    /\ df_maestro # SinTabla
    /\ Len(df_maestro) < Len(TodasLasFilas)
    /\ \E f, g \in Elementos(df_maestro) :
           CincoCampos(f) = CincoCampos(g) /\ f.Origen # g.Origen

\* adjacent rows that both carry a date text are in ascending text order
OrdenadaPorFecha(tabla) ==
    \A i \in 1..(Len(tabla) - 1) :
        (tabla[i].Fecha # Nulo /\ tabla[i + 1].Fecha # Nulo) =>
            ~TextoMenor(tabla[i + 1].Fecha, tabla[i].Fecha)

\* C5: the merged table, as exported and as aggregated, is ascending by
\* Fecha under text comparison on every two adjacent rows that carry a date
\* text, whatever the concatenation order was, and also after the duplicate
\* removal.
C5_Ordenada ==
    /\ df_maestro # SinTabla => OrdenadaPorFecha(df_maestro)
    /\ salida # SinTabla => OrdenadaPorFecha(salida)

\* the concatenation was not in date order, a duplicate was removed, and the
\* table exported has at least three rows, one of them with a text that is
\* no ISO date
C5_Witness ==
    /\ salida # SinTabla
    /\ ~OrdenadaPorFecha(Concat(dataframes))
    /\ Len(salida) >= 3
    /\ Len(salida) < Len(Concat(dataframes))
    /\ \E f \in Elementos(salida) : f.Fecha # Nulo /\ Len(f.Fecha) = 10 /\ f.Fecha[3] = "/"

\* a sub-field of the March source as the claim values it: 0 when missing
\* or not a number, else its integer part
ValorSubcampo(celda) ==
    IF celda = Nulo \/ ANumerico(celda).nan THEN 0
    ELSE AEntero(ANumerico(celda))

OperadorYCantidad(operador, cantidad) ==
    [Operador |-> operador, Cantidad |-> cantidad]

DeMarzo(tabla) ==
    {OperadorYCantidad(f.Operador, f.Cantidad) :
        f \in {g \in Elementos(tabla) : g.Origen = "Marzo"}}

TotalDe(operador) ==
    SumaCantidad(SelectSeq(df_maestro, LAMBDA f : f.Operador = operador))

OperadoresDe(tabla) == {tabla[i].Operador : i \in 1..Len(tabla)} \ {Nulo}

\* C9: the operator reported as most productive has a total at least that
\* of every other operator, and among several with the largest total it is
\* the first in the key order of the grouping, as a stable descending sort
\* would leave it.
C9_Original ==
    (top_operador # Nulo) =>
        /\ \A o \in OperadoresDe(df_maestro) : TotalDe(o) <= TotalDe(top_operador)
        /\ \A o \in OperadoresDe(df_maestro) :
               TotalDe(o) = TotalDe(top_operador) => ~TextoMenor(o, top_operador)

\* a source of zero bytes, or one that yields no data row
SinFilas(mes) ==
    \/ archivos[mes].estado \in {"cero_bytes", "sin_datos"}
    \/ archivos[mes].estado = "ok" /\ archivos[mes].filas = <<>>

\* C10: a source that is zero-length or yields no parseable data row (only
\* its header, say) is a recoverable failure: once the loop has dealt with
\* it, its file name is in the error list and it has no entry in the
\* per-source summary.
C10_Original ==
    (pc # "inactivo" /\ ~Interrumpido) =>
        \A i \in 1..(idx - 1) :
            SinFilas(Meses[i]) =>
                /\ ARCHIVOS[Meses[i]] \in Elementos(errores)
                /\ \A k \in 1..Len(resumen) : resumen[k][1] # Capitalizar(Meses[i])

\* the machine chart has been computed and the operator ranking has not yet
\* replaced it
GraficaDeMaquinas == pc = "operador" /\ ranking # SinTabla

\* C11: for every table that reaches the machine aggregation and every
\* machine group, the bar length is an integer from 0 to 30, the group with
\* the largest total gets 30, and the bar drawn has exactly 30 cells, also
\* for zero and negative totals.
C11_Original ==
    GraficaDeMaquinas =>
        \A g \in 1..Len(ranking) :
            /\ ranking[g].barra_len \in 0..AnchoBarra
            /\ ranking[g].Total_Piezas = ranking[1].Total_Piezas =>
                   ranking[g].barra_len = AnchoBarra
            /\ LargoBarra(ranking[g].barra_len) = AnchoBarra

=============================================================================
